---------------------------- MODULE Spec2Model ----------------------------
(***************************************************************************)
(* Model of the AMAV pipeline of xavimarsellach/ageing-amav:               *)
(*   scripts/build_amav_from_supplemental_Table_1.py  (table rebuild)      *)
(*   scripts/make_supplemental_figures.py             (figure script)      *)
(*   scripts/LINEAR_vs_EXPONENTIAL.py                 (model selection)    *)
(*                                                                         *)
(* Floating-point values are modelled as exact rationals extended with     *)
(* NaN and the two infinities; arrays are functions over 0..n-1 so that    *)
(* positions carry the same numbers as in the Python source.               *)
(***************************************************************************)
EXTENDS Integers, Sequences, FiniteSets, TLC

(***************************************************************************)
(* Bounds of the model.                                                    *)
(***************************************************************************)
\* number of positions of the year axis
MaxYears == 5
\* largest number of observations the studies of a phenotype report together
MaxObs == 4
\* largest number of usable points of a series given to the model selector
MaxPoints == 5
\* largest length of a boolean array given to runs_true on its own
MaxMask == 6

\* first year of the axis
BaseYear == 2000
\* the study columns of one phenotype (T1..Tk, named at build script line 287)
Trends == <<"T1", "T2">>
\* the prevalence values a study may report, in units of 1e-12
ObsVals == {0, 2}

(***************************************************************************)
(* Numbers: IEEE doubles as exact rationals, NaN, -inf and +inf.  A finite *)
(* number [n, d, e] stands for (n/d) * Unit^e with d > 0, n/d in lowest    *)
(* terms, e in {0, 1} and Unit = 1e-12 (the magnitude of EPS, build script *)
(* line 57), so that values inside and outside the tolerance are both      *)
(* representable in 32-bit integers.  A non-zero number of scale e = 1 is  *)
(* smaller in magnitude than every non-zero number of scale e = 0 (the     *)
(* numerators and denominators of the model stay far below 1e12).          *)
(***************************************************************************)
Abs(i) == IF i < 0 THEN -i ELSE i

RECURSIVE GCD(_, _)
GCD(a, b) == IF b = 0 THEN a ELSE GCD(b, a % b)

NaN == [k |-> "nan", n |-> 0, d |-> 1, e |-> 0]
NegInf == [k |-> "ninf", n |-> 0, d |-> 1, e |-> 0]
PosInf == [k |-> "pinf", n |-> 0, d |-> 1, e |-> 0]
\* the sum of two non-zero finite numbers of different scales: not representable
Mixed == [k |-> "mixed", n |-> 0, d |-> 1, e |-> 0]

Q(n, d, e) ==
    LET s == IF d < 0 THEN -1 ELSE 1
        g == GCD(Abs(n), Abs(d))
    IN  [k |-> "fin", n |-> (s * n) \div g, d |-> (s * d) \div g,
         e |-> IF n = 0 THEN 0 ELSE e]

\* n/d
Fin(n, d) == Q(n, d, 0)
\* (n/d) * 1e-12
Tiny(n, d) == Q(n, d, 1)

Zero == Fin(0, 1)

isnan(a) == a.k = "nan"
isfinite(a) == a.k = "fin"
Sign(a) == IF a.n < 0 THEN -1 ELSE IF a.n > 0 THEN 1 ELSE 0

\* a + b
FAdd(a, b) ==
    IF isnan(a) \/ isnan(b) THEN NaN
    ELSE IF isfinite(a) /\ isfinite(b)
         THEN IF a.n = 0 THEN b
              ELSE IF b.n = 0 THEN a
              ELSE IF a.e = b.e THEN Q(a.n * b.d + b.n * a.d, a.d * b.d, a.e)
              ELSE Mixed
    ELSE IF isfinite(a) THEN b
    ELSE IF isfinite(b) THEN a
    ELSE IF a.k = b.k THEN a ELSE NaN

\* -a
FNeg(a) ==
    IF isfinite(a) THEN Q(-a.n, a.d, a.e)
    ELSE IF a.k = "ninf" THEN PosInf
    ELSE IF a.k = "pinf" THEN NegInf
    ELSE a

\* a - b
FSub(a, b) == FAdd(a, FNeg(b))

\* a / c for an integer c # 0
FDivInt(a, c) ==
    IF isfinite(a) THEN Q(a.n, a.d * c, a.e)
    ELSE IF c > 0 THEN a ELSE FNeg(a)

\* a < b; every comparison with NaN is false
FLt(a, b) ==
    IF isnan(a) \/ isnan(b) THEN FALSE
    ELSE IF isfinite(a) /\ isfinite(b)
         THEN IF Sign(a) # Sign(b) THEN Sign(a) < Sign(b)
              ELSE IF a.e = b.e THEN a.n * b.d < b.n * a.d
              ELSE IF Sign(a) > 0 THEN a.e > b.e
              ELSE a.e < b.e
    ELSE IF a.k = "ninf" THEN b.k # "ninf"
    ELSE IF b.k = "pinf" THEN a.k # "pinf"
    ELSE FALSE

\* a <= b; every comparison with NaN is false
FLe(a, b) == ~isnan(a) /\ ~isnan(b) /\ ~FLt(b, a)

\* max(a, 0.0) of Python for a finite a
FMax0(a) == IF FLt(Zero, a) THEN a ELSE Zero

(***************************************************************************)
(* Arrays are functions over 0..n-1.                                       *)
(***************************************************************************)
Size(arr) == Cardinality(DOMAIN arr)

\* np.full(n, np.nan, float)
full_nan(n) == [i \in 0 .. n - 1 |-> NaN]

\* np.where(mask)[0]: the positions where mask holds, ascending, as an array
where(mask) ==
    LET T == {p \in DOMAIN mask : mask[p]}
    IN  [i \in 0 .. Cardinality(T) - 1 |->
            CHOOSE p \in T : Cardinality({q \in T : q < p}) = i]

(***************************************************************************)
(* runs_true: the (start, end) position intervals where mask is True and   *)
(* contiguous, as a sequence in the order the scan appends them.           *)
(***************************************************************************)
\* runs_scan without the append that follows the loop
RECURSIVE runs_scan_nofinal(_, _, _, _, _)
runs_scan_nofinal(idx, j, runs, start, prev) ==
    IF j > Size(idx) - 1 THEN runs
    ELSE IF idx[j] = prev + 1
         THEN runs_scan_nofinal(idx, j + 1, runs, start, idx[j])
         ELSE runs_scan_nofinal(idx, j + 1, Append(runs, <<start, prev>>), idx[j], idx[j])

\* the loop over idx[1:] and the append that follows it
RECURSIVE runs_scan(_, _, _, _, _)
runs_scan(idx, j, runs, start, prev) ==
    IF j > Size(idx) - 1 THEN Append(runs, <<start, prev>>)
    ELSE IF idx[j] = prev + 1
         THEN runs_scan(idx, j + 1, runs, start, idx[j])
         ELSE runs_scan(idx, j + 1, Append(runs, <<start, prev>>), idx[j], idx[j])

runs_true(mask) ==
    LET idx == where(mask)
    IN  IF Size(idx) = 0 THEN <<>>
        ELSE runs_scan(idx, 1, <<>>, idx[0], idx[0])

(***************************************************************************)
(* build_perstudy_linearslope (identical in both scripts).  A table is a   *)
(* record [Year, T]: Year the Year column, T[c] the column of study c.     *)
(***************************************************************************)
\* sort_values("Year").reset_index(drop=True): order[r] is the input row that
\* becomes row r
sort_values(Year) ==
    [r \in DOMAIN Year |->
        CHOOSE i \in DOMAIN Year :
            Cardinality({j \in DOMAIN Year :
                Year[j] < Year[i] \/ (Year[j] = Year[i] /\ j < i)}) = r]

\* slope_loop with the segment closed on the left: years >= y0
RECURSIVE slope_loop_leftclosed(_, _, _, _, _)
slope_loop_leftclosed(years, obs_y, obs_v, i, arr) ==
    IF i > Size(obs_y) - 2 THEN arr
    ELSE LET y0 == obs_y[i]
             y1 == obs_y[i + 1]
             slope == FDivInt(FSub(obs_v[i + 1], obs_v[i]), y1 - y0)
         IN  IF y1 > y0
             THEN slope_loop_leftclosed(years, obs_y, obs_v, i + 1,
                      [p \in DOMAIN arr |->
                          IF years[p] >= y0 /\ years[p] <= y1 THEN slope ELSE arr[p]])
             ELSE slope_loop_leftclosed(years, obs_y, obs_v, i + 1, arr)

\* the loop over successive observed points of one study
RECURSIVE slope_loop(_, _, _, _, _)
slope_loop(years, obs_y, obs_v, i, arr) ==
    IF i > Size(obs_y) - 2 THEN arr
    ELSE LET y0 == obs_y[i]
             y1 == obs_y[i + 1]
             v0 == obs_v[i]
             v1 == obs_v[i + 1]
         IN  IF y1 > y0
             THEN LET slope == FDivInt(FSub(v1, v0), y1 - y0)
                  IN  slope_loop(years, obs_y, obs_v, i + 1,
                          [p \in DOMAIN arr |->
                              IF years[p] > y0 /\ years[p] <= y1
                              THEN slope ELSE arr[p]])
             ELSE slope_loop(years, obs_y, obs_v, i + 1, arr)

\* the slope column of one study column s over the sorted axis years
study_slope(years, s) ==
    LET mask == [p \in DOMAIN s |-> ~isnan(s[p])]
        at == where(mask)
        obs_y == [i \in DOMAIN at |-> years[at[i]]]
        obs_v == [i \in DOMAIN at |-> s[at[i]]]
    IN  slope_loop(years, obs_y, obs_v, 0, full_nan(Size(years)))

build_perstudy_linearslope(raw_df) ==
    LET order == sort_values(raw_df.Year)
        years == [r \in DOMAIN order |-> raw_df.Year[order[r]]]
    IN  [Year |-> years,
         T |-> [c \in DOMAIN raw_df.T |->
                  study_slope(years, [r \in DOMAIN order |-> raw_df.T[c][order[r]]])]]

(***************************************************************************)
(* build_summary_mav_amav, table rebuild script.                           *)
(***************************************************************************)
\* behaviour switches of the build script
MODE == "prev"
EPS == Tiny(1, 1)

RECURSIVE FSum(_)
FSum(vs) == IF vs = <<>> THEN Zero ELSE FAdd(FSum(SubSeq(vs, 1, Len(vs) - 1)), vs[Len(vs)])

\* row i of the study matrix M, as the sequence of its cells in column order
row_of(M, i) == [c \in DOMAIN M |-> M[c][i]]

\* np.sum(~np.isnan(M), axis=1)
datapoints_notnan(M, n) ==
    [i \in 0 .. n - 1 |-> Cardinality({c \in DOMAIN M : ~isnan(M[c][i])})]

\* nanmean dividing by the number of study columns instead of the defined ones
nanmean_allcols(M, n) ==
    [i \in 0 .. n - 1 |->
        LET vs == SelectSeq(row_of(M, i), LAMBDA v : ~isnan(v))
        IN  IF Len(vs) = 0 THEN NaN ELSE FDivInt(FSum(vs), Len(M))]

\* np.nanmean(M, axis=1): the mean of the non-NaN cells, NaN for an all-NaN row
nanmean(M, n) ==
    [i \in 0 .. n - 1 |->
        LET vs == SelectSeq(row_of(M, i), LAMBDA v : ~isnan(v))
        IN  IF Len(vs) = 0 THEN NaN ELSE FDivInt(FSum(vs), Len(vs))]

\* last_run taking the first run, mav_runs[0]
first_run(mav_runs) == IF mav_runs = <<>> THEN <<>> ELSE mav_runs[1]

\* mav_runs[-1], or <<>> when there is no run
last_run(mav_runs) == IF mav_runs = <<>> THEN <<>> ELSE mav_runs[Len(mav_runs)]

\* amav_loop integrating mav[i] instead of mav[i - 1]
RECURSIVE amav_loop_nolag(_, _, _, _, _)
amav_loop_nolag(mav, i, stop, acc, amav) ==
    IF i >= stop THEN [raised |-> FALSE, amav |-> amav]
    ELSE IF i \notin DOMAIN amav THEN [raised |-> TRUE, amav |-> amav]
    ELSE LET acc2 == IF ~isnan(mav[i]) THEN FAdd(acc, mav[i]) ELSE acc
         IN  amav_loop_nolag(mav, i + 1, stop, acc2, [amav EXCEPT ![i] = acc2])

\* amav_loop writing amav[i] before it adds mav[i - 1] to the accumulator
RECURSIVE amav_loop_writefirst(_, _, _, _, _)
amav_loop_writefirst(mav, i, stop, acc, amav) ==
    IF i >= stop THEN [raised |-> FALSE, amav |-> amav]
    ELSE IF i \notin DOMAIN amav THEN [raised |-> TRUE, amav |-> amav]
    ELSE LET acc2 == IF ~isnan(mav[i - 1]) THEN FAdd(acc, mav[i - 1]) ELSE acc
         IN  amav_loop_writefirst(mav, i + 1, stop, acc2, [amav EXCEPT ![i] = acc])

\* for i in range(last_s + 1, last_e + 2): amav[i] = acc; an index past the
\* end of the array raises IndexError
RECURSIVE amav_loop(_, _, _, _, _)
amav_loop(mav, i, stop, acc, amav) ==
    IF i >= stop THEN [raised |-> FALSE, amav |-> amav]
    ELSE LET prev == i - 1
             acc2 == IF ~isnan(mav[prev]) THEN FAdd(acc, mav[prev]) ELSE acc
         IN  IF i \notin DOMAIN amav
             THEN [raised |-> TRUE, amav |-> amav]
             ELSE amav_loop(mav, i + 1, stop, acc2, [amav EXCEPT ![i] = acc2])

\* amav[lo:hi + 1]: a slice is clipped to the array
slice(arr, lo, hi) ==
    LET top == IF hi < Size(arr) - 1 THEN hi ELSE Size(arr) - 1
    IN  [j \in 0 .. top - lo |-> arr[lo + j]]

\* np.argmin(w): one pass that keeps the first position of the smallest value
RECURSIVE argmin_scan(_, _, _)
argmin_scan(w, j, best) ==
    IF j > Size(w) - 1 THEN best
    ELSE IF FLt(w[j], w[best]) THEN argmin_scan(w, j + 1, j)
    ELSE argmin_scan(w, j + 1, best)

\* nanargmin keeping the last position of the smallest value
nanargmin_last(w) ==
    LET filled == [j \in DOMAIN w |-> IF isnan(w[j]) THEN PosInf ELSE w[j]]
    IN  CHOOSE j \in DOMAIN w :
            \A q \in DOMAIN w :
                /\ ~FLt(filled[q], filled[j])
                /\ (q > j => FLt(filled[j], filled[q]))

\* np.nanargmin(w): the NaN are replaced by +inf, then np.argmin; w has a
\* non-NaN value wherever the scripts call it
nanargmin(w) ==
    LET filled == [j \in DOMAIN w |-> IF isnan(w[j]) THEN PosInf ELSE w[j]]
    IN  argmin_scan(filled, 1, 0)

\* amav_pos_loop clamping every contribution, whatever INCLUDE_NEG
RECURSIVE amav_pos_loop_clamp(_, _, _, _, _, _)
amav_pos_loop_clamp(mav, i, stop, run, amav_pos, include_neg) ==
    IF i >= stop THEN [raised |-> FALSE, amav_pos |-> amav_pos]
    ELSE IF (i - 1) \notin DOMAIN mav \/ i \notin DOMAIN amav_pos
         THEN [raised |-> TRUE, amav_pos |-> amav_pos]
         ELSE IF isfinite(mav[i - 1])
              THEN amav_pos_loop_clamp(mav, i + 1, stop, FAdd(run, FMax0(mav[i - 1])),
                       [amav_pos EXCEPT ![i] = FAdd(run, FMax0(mav[i - 1]))], include_neg)
              ELSE amav_pos_loop_clamp(mav, i + 1, stop, run, amav_pos, include_neg)

\* amav_pos_loop taking mav[i] instead of mav[i - 1], as MODE = "same" would
RECURSIVE amav_pos_loop_same(_, _, _, _, _, _)
amav_pos_loop_same(mav, i, stop, run, amav_pos, include_neg) ==
    IF i >= stop THEN [raised |-> FALSE, amav_pos |-> amav_pos]
    ELSE IF i \notin DOMAIN mav \/ i \notin DOMAIN amav_pos
         THEN [raised |-> TRUE, amav_pos |-> amav_pos]
         ELSE IF isfinite(mav[i])
              THEN LET contrib == IF include_neg THEN mav[i] ELSE FMax0(mav[i])
                   IN  amav_pos_loop_same(mav, i + 1, stop, FAdd(run, contrib),
                           [amav_pos EXCEPT ![i] = FAdd(run, contrib)], include_neg)
              ELSE amav_pos_loop_same(mav, i + 1, stop, run, amav_pos, include_neg)

\* amav_pos_loop adding every contribution unclamped, whatever INCLUDE_NEG
RECURSIVE amav_pos_loop_noclamp(_, _, _, _, _, _)
amav_pos_loop_noclamp(mav, i, stop, run, amav_pos, include_neg) ==
    IF i >= stop THEN [raised |-> FALSE, amav_pos |-> amav_pos]
    ELSE IF (i - 1) \notin DOMAIN mav \/ i \notin DOMAIN amav_pos
         THEN [raised |-> TRUE, amav_pos |-> amav_pos]
         ELSE IF isfinite(mav[i - 1])
              THEN amav_pos_loop_noclamp(mav, i + 1, stop, FAdd(run, mav[i - 1]),
                       [amav_pos EXCEPT ![i] = FAdd(run, mav[i - 1])], include_neg)
              ELSE amav_pos_loop_noclamp(mav, i + 1, stop, run, amav_pos, include_neg)

\* for i in range(start_i, hi + 1): the AMAV-POS accumulation
RECURSIVE amav_pos_loop(_, _, _, _, _, _)
amav_pos_loop(mav, i, stop, run, amav_pos, include_neg) ==
    IF i >= stop THEN [raised |-> FALSE, amav_pos |-> amav_pos]
    ELSE LET idx_mav == IF MODE = "prev" THEN i - 1 ELSE i
         IN  IF idx_mav \notin DOMAIN mav
             THEN [raised |-> TRUE, amav_pos |-> amav_pos]
             ELSE LET v == mav[idx_mav]
                  IN  IF isfinite(v)
                      THEN LET contrib == IF include_neg THEN v ELSE FMax0(v)
                               run2 == FAdd(run, contrib)
                           IN  IF i \notin DOMAIN amav_pos
                               THEN [raised |-> TRUE, amav_pos |-> amav_pos]
                               ELSE amav_pos_loop(mav, i + 1, stop, run2,
                                        [amav_pos EXCEPT ![i] = run2], include_neg)
                      ELSE amav_pos_loop(mav, i + 1, stop, run, amav_pos, include_neg)

\* the value of a call that raised: no summary is returned.  Besides the
\* columns of the summary the record keeps the local variable valley (-1
\* where the function returns before it is set)
Raised == [raised |-> TRUE, Year |-> <<>>, DataPoints |-> <<>>, MAV |-> <<>>,
           AMAV |-> <<>>, has_pos |-> FALSE, AMAV_POS |-> <<>>, valley |-> -1]

Max(a, b) == IF a > b THEN a ELSE b
Min(a, b) == IF a < b THEN a ELSE b

\* build_summary_mav_amav of the table rebuild script; include_neg is the
\* module switch INCLUDE_NEG
build_summary_mav_amav(slope_df, include_neg) ==
    LET order == sort_values(slope_df.Year)
        years == [r \in DOMAIN order |-> slope_df.Year[order[r]]]
        n == Size(years)
        M == [c \in DOMAIN slope_df.T |-> [r \in DOMAIN order |-> slope_df.T[c][order[r]]]]
        datapoints == datapoints_notnan(M, n)
        mav == nanmean(M, n)
        finite_mav == [i \in 0 .. n - 1 |-> ~isnan(mav[i])]
        mav_runs == runs_true(finite_mav)
        last == last_run(mav_runs)
        am == IF mav_runs # <<>>
              THEN amav_loop(mav, last[1] + 1, last[2] + 2, Zero, full_nan(n))
              ELSE [raised |-> FALSE, amav |-> full_nan(n)]
        amav == am.amav
        summary == [raised |-> FALSE, Year |-> years, DataPoints |-> datapoints,
                    MAV |-> mav, AMAV |-> amav, has_pos |-> FALSE, AMAV_POS |-> <<>>,
                    valley |-> -1]
    IN  IF am.raised THEN Raised
        ELSE IF mav_runs = <<>> THEN summary
        ELSE LET lo == last[1] + 1
                 hi == last[2] + 1
                 window_am == slice(amav, lo, hi)
                 has_negative ==
                     /\ \E j \in DOMAIN window_am : isfinite(window_am[j])
                     /\ \E j \in DOMAIN window_am :
                           isfinite(window_am[j]) /\ FLt(window_am[j], FNeg(EPS))
             IN  IF ~has_negative THEN summary
                 ELSE LET valley == lo + nanargmin(window_am)
                          start_i == IF MODE = "prev" THEN Max(valley + 1, lo)
                                     ELSE Max(valley, lo)
                          ap == amav_pos_loop(mav, start_i, hi + 1, Zero,
                                              full_nan(Size(amav)), include_neg)
                      IN  IF ap.raised THEN Raised
                          ELSE [summary EXCEPT !.has_pos = TRUE,
                                               !.AMAV_POS = ap.amav_pos,
                                               !.valley = valley]

(***************************************************************************)
(* build_summary_mav_amav, figure script.                                  *)
(***************************************************************************)
\* the manual mean over the finite cells of each row
manual_mean(M, n) ==
    [i \in 0 .. n - 1 |->
        LET vs == SelectSeq(row_of(M, i), LAMBDA v : isfinite(v))
        IN  IF Len(vs) = 0 THEN NaN ELSE FDivInt(FSum(vs), Len(vs))]

\* np.sum(np.isfinite(M), axis=1)
datapoints_finite(M, n) ==
    [i \in 0 .. n - 1 |-> Cardinality({c \in DOMAIN M : isfinite(M[c][i])})]

\* for i in range(last_s + 1, hi_idx + 1): amav[i] = acc
RECURSIVE amav_loop_fig(_, _, _, _, _)
amav_loop_fig(mav, i, stop, acc, amav) ==
    IF i >= stop THEN amav
    ELSE LET prev == i - 1
             acc2 == IF isfinite(mav[prev]) THEN FAdd(acc, mav[prev]) ELSE acc
         IN  amav_loop_fig(mav, i + 1, stop, acc2, [amav EXCEPT ![i] = acc2])

\* for i in range(start_i, min(hi, n - 1) + 1): the AMAV-POS accumulation
RECURSIVE amav_pos_loop_fig(_, _, _, _, _)
amav_pos_loop_fig(mav, i, stop, run, amav_pos) ==
    IF i >= stop THEN amav_pos
    ELSE LET v == mav[i - 1]
         IN  IF isfinite(v)
             THEN amav_pos_loop_fig(mav, i + 1, stop, FAdd(run, v),
                      [amav_pos EXCEPT ![i] = FAdd(run, v)])
             ELSE amav_pos_loop_fig(mav, i + 1, stop, run, amav_pos)

build_summary_mav_amav_fig(slope_df) ==
    LET order == sort_values(slope_df.Year)
        years == [r \in DOMAIN order |-> slope_df.Year[order[r]]]
        M == [c \in DOMAIN slope_df.T |-> [r \in DOMAIN order |-> slope_df.T[c][order[r]]]]
        mav == manual_mean(M, Size(years))
        datapoints == datapoints_finite(M, Size(years))
        n == Size(mav)
        finite_mav == [i \in 0 .. n - 1 |-> isfinite(mav[i])]
        mav_runs == runs_true(finite_mav)
        last == last_run(mav_runs)
        amav == IF mav_runs # <<>>
                THEN amav_loop_fig(mav, last[1] + 1, Min(last[2] + 1, n - 1) + 1,
                                   Zero, full_nan(n))
                ELSE full_nan(n)
        summary == [raised |-> FALSE, Year |-> years, DataPoints |-> datapoints,
                    MAV |-> mav, AMAV |-> amav, has_pos |-> FALSE, AMAV_POS |-> <<>>,
                    valley |-> -1]
    IN  IF mav_runs = <<>> THEN summary
        ELSE LET lo == last[1] + 1
                 hi == last[2] + 1
                 window_am == slice(amav, lo, hi)
                 has_negative ==
                     /\ \E j \in DOMAIN window_am : isfinite(window_am[j])
                     /\ \E j \in DOMAIN window_am :
                           isfinite(window_am[j]) /\ FLt(window_am[j], Zero)
             IN  IF ~has_negative THEN summary
                 ELSE LET valley == lo + nanargmin(window_am)
                          start_i == Max(valley + 1, lo)
                      IN  [summary EXCEPT
                              !.has_pos = TRUE,
                              !.valley = valley,
                              !.AMAV_POS = amav_pos_loop_fig(mav, start_i,
                                               Min(hi, n - 1) + 1, Zero,
                                               full_nan(Size(amav)))]

(***************************************************************************)
(* build_disease_series, table rebuild script: the series exported for one *)
(* phenotype.                                                              *)
(***************************************************************************)
\* raw.drop(columns=["Year"]).isna().all().all(): a phenotype whose trends
\* are all missing is skipped
all_na(raw) ==
    \A c \in DOMAIN raw.T : \A r \in DOMAIN raw.T[c] : isnan(raw.T[c][r])

\* summary[col].notna().any()
notna_any(col) == \E i \in DOMAIN col : ~isnan(col[i])

\* chosen_col taking AMAV-POS whenever the summary has the column
chosen_col_present(summary) == IF summary.has_pos THEN "AMAV-POS" ELSE "AMAV"

\* the column build_disease_series exports
chosen_col(summary) ==
    IF summary.has_pos /\ notna_any(summary.AMAV_POS) THEN "AMAV-POS" ELSE "AMAV"

\* summary.set_index("Year")[chosen_col]: the exported series, its index the
\* years of the summary
set_index_year(summary, col) ==
    [chosen_col |-> col, Year |-> summary.Year,
     values |-> IF col = "AMAV-POS" THEN summary.AMAV_POS ELSE summary.AMAV]

(***************************************************************************)
(* LINEAR_vs_EXPONENTIAL.py: the choice between a linear and an            *)
(* exponential trend for the series of one disease.                        *)
(*                                                                         *)
(* The least-squares fits are made by statsmodels.  A fit is modelled by   *)
(* its answer, drawn from a small set: the AIC and BIC of a full fit, and  *)
(* the absolute error of the held-out prediction of a leave-one-out fit.   *)
(* A series df_one is a record [Year, AMAV] of two arrays; the missing     *)
(* values were dropped by the caller (line 210).                           *)
(***************************************************************************)
MIN_POINTS_LINEAR == 2
MIN_POINTS_EXP == 3
MIN_POINTS_CV == 5
AIC_MARGIN == 4
RMSE_RATIO == Fin(98, 100)

\* math.sqrt(q) for a finite q >= 0, kept exact as the root of n/d
FSqrt(q) == [k |-> "root", n |-> q.n, d |-> q.d, e |-> 0]

\* r > 0 for a root r
RootPositive(r) == r.n > 0

\* a / b for two roots, b > 0: the root of the quotient
RootDiv(a, b) == FSqrt(Fin(a.n * b.d, a.d * b.n))

\* r <= c for a root or +inf r and a finite c >= 0
RootLe(r, c) == r.k = "root" /\ r.n * c.d * c.d <= c.n * c.n * r.d

\* the calls of the fitting functions a run makes, in order: the model and
\* the held-out position (-1 for a fit of the whole series)
FitCall(model, held) == [model |-> model, held |-> held]

\* fit_linear: AIC and BIC as statsmodels answers them
fit_linear(y, answer) == [aic |-> answer.aic, bic |-> answer.bic]

\* fit_exponential refusing only the negative values: y < 0
fit_exponential_strict(y, answer) ==
    IF \E i \in DOMAIN y : FLt(y[i], Zero)
    THEN [raised |-> TRUE, aic |-> NaN, bic |-> NaN]
    ELSE [raised |-> FALSE, aic |-> answer.aic, bic |-> answer.bic]

\* fit_exponential: raises ValueError when some y <= 0
fit_exponential(y, answer) ==
    IF \E i \in DOMAIN y : FLe(y[i], Zero)
    THEN [raised |-> TRUE, aic |-> NaN, bic |-> NaN]
    ELSE [raised |-> FALSE, aic |-> answer.aic, bic |-> answer.bic]

\* the sum of the squared held-out errors err[0..n-1], one per point
RECURSIVE se_sum(_, _)
se_sum(err, i) == IF i < 0 THEN 0 ELSE se_sum(err, i - 1) + err[i] * err[i]

\* the leave-one-out fits of a series of n points, in the order of the loop
loocv_calls(model, n) == [i \in 1 .. n |-> FitCall(model, i - 1)]

\* loocv_rmse_linear cross-validating from one point fewer
loocv_rmse_linear_early(y, err) ==
    LET n == Size(y)
    IN  IF n < MIN_POINTS_CV - 1 THEN [rmse |-> NaN, calls |-> <<>>, raised |-> FALSE]
        ELSE [rmse |-> FSqrt(Fin(se_sum(err, n - 1), n)),
              calls |-> loocv_calls("linear", n), raised |-> FALSE]

\* loocv_rmse_linear: [rmse, calls]
loocv_rmse_linear(y, err) ==
    LET n == Size(y)
    IN  IF n < MIN_POINTS_CV THEN [rmse |-> NaN, calls |-> <<>>, raised |-> FALSE]
        ELSE [rmse |-> FSqrt(Fin(se_sum(err, n - 1), n)),
              calls |-> loocv_calls("linear", n), raised |-> FALSE]

\* loocv_rmse_exponential: [rmse, calls]; a ValueError of fit_exponential on
\* a training set would propagate
loocv_rmse_exponential(y, err) ==
    LET n == Size(y)
    IN  IF n < MIN_POINTS_CV \/ \E i \in DOMAIN y : FLe(y[i], Zero)
        THEN [rmse |-> NaN, calls |-> <<>>, raised |-> FALSE]
        ELSE [rmse |-> FSqrt(Fin(se_sum(err, n - 1), n)),
              calls |-> loocv_calls("exponential", n),
              raised |-> \E h \in DOMAIN y :
                             fit_exponential([i \in DOMAIN y \ {h} |-> y[i]],
                                             [aic |-> Zero, bic |-> Zero]).raised]

\* the record choose_model_for_disease returns, with the fits it made and
\* whether an exception left the call
Metrics(n, model, aic_lin, aic_exp, bic_lin, bic_exp, rmse_lin, rmse_exp, fits, error) ==
    [n_all |-> n, n_pos |-> n, model |-> model,
     AIC_linear |-> aic_lin, AIC_exponential |-> aic_exp,
     BIC_linear |-> bic_lin, BIC_exponential |-> bic_exp,
     RMSEcv_linear |-> rmse_lin, RMSEcv_exponential |-> rmse_exp,
     fits |-> fits, error |-> error]

\* the decision taken on the AIC difference alone
decide_aic_only(aic_lin, aic_exp, rmse_lin, rmse_exp) ==
    IF FLe(FSub(aic_exp, aic_lin), Fin(-AIC_MARGIN, 1)) THEN "EXPONENTIAL" ELSE "LINEAR"

\* the decision of lines 165-175
decide(aic_lin, aic_exp, rmse_lin, rmse_exp) ==
    LET delta_aic == FSub(aic_exp, aic_lin)
    IN  IF isnan(rmse_lin) \/ isnan(rmse_exp)
        THEN IF FLe(delta_aic, Fin(-AIC_MARGIN, 1)) THEN "EXPONENTIAL" ELSE "LINEAR"
        ELSE LET rmse_ratio == IF RootPositive(rmse_lin)
                               THEN RootDiv(rmse_exp, rmse_lin) ELSE PosInf
             IN  IF FLe(delta_aic, Fin(-AIC_MARGIN, 1)) /\ RootLe(rmse_ratio, RMSE_RATIO)
                 THEN "EXPONENTIAL" ELSE "LINEAR"

\* line 119 with the threshold one too low
insufficient_data_below(n_all) == n_all < MIN_POINTS_LINEAR - 1

\* line 119: too few points for any fit
insufficient_data(n_all) == n_all < MIN_POINTS_LINEAR

\* line 138 testing against the minimum for a line
too_few_for_exponential_lin(n_pos) == n_pos < MIN_POINTS_LINEAR

\* line 138: too few points for an exponential
too_few_for_exponential(n_pos) == n_pos < MIN_POINTS_EXP

\* choose_model_for_disease; o holds the answers of the fits: o.lin and o.exp
\* for the fits of the whole series, o.err_lin and o.err_exp for the held-out
\* predictions
choose_model_for_disease(df_one, o) ==
    LET n_all == Size(df_one.Year)
        n_pos == n_all
        y == df_one.AMAV
    IN  IF insufficient_data(n_all)
        THEN Metrics(n_all, "INSUFFICIENT_DATA", NaN, NaN, NaN, NaN, NaN, NaN, <<>>, FALSE)
        ELSE IF too_few_for_exponential(n_pos)
        THEN LET lin == fit_linear(y, o.lin)
             IN  Metrics(n_all, "LINEAR_ONLY", lin.aic, NaN, lin.bic, NaN, NaN, NaN,
                         <<FitCall("linear", -1)>>, FALSE)
        ELSE LET lin == fit_linear(y, o.lin)
                 cv_lin == loocv_rmse_linear(y, o.err_lin)
                 fits_lin == <<FitCall("linear", -1)>> \o cv_lin.calls
                 ex == fit_exponential(y, o.exp)
                 cv_exp == loocv_rmse_exponential(y, o.err_exp)
             IN  IF ex.raised \/ cv_exp.raised
                 THEN Metrics(n_all, "LINEAR", lin.aic, NaN, lin.bic, NaN,
                              cv_lin.rmse, NaN, fits_lin, FALSE)
                 ELSE Metrics(n_all, decide(lin.aic, ex.aic, cv_lin.rmse, cv_exp.rmse),
                              lin.aic, ex.aic, lin.bic, ex.bic, cv_lin.rmse, cv_exp.rmse,
                              fits_lin \o <<FitCall("exponential", -1)>> \o cv_exp.calls,
                              FALSE)

(***************************************************************************)
(* State: one phenotype's run through the pipeline (Spec), one disease's   *)
(* run through the model selection (SpecSelect), a batch run of either     *)
(* driver (SpecBatch), and one call of runs_true (SpecRuns).               *)
(***************************************************************************)
VARIABLES
    pc,           \* the position of the run: "raw" -> "slope" -> "summary" ->
                  \* "exported", "series" -> "chosen", "start" -> "loop" ->
                  \* "done" or "aborted", "mask" -> "runs"
    raw_df,       \* the raw table of the phenotype: Year | T1 | ... | Tk
    slope_df,     \* the result of build_perstudy_linearslope
    script,       \* which script's build_summary_mav_amav ran: "table" or "figures"
    INCLUDE_NEG,  \* the table script's switch for the run
    summary,      \* the result of build_summary_mav_amav
    ser,          \* the series build_disease_series exports for the phenotype
    df_one,       \* the series of one disease: Year | AMAV
    metrics,      \* the result of choose_model_for_disease
    run,          \* a run of build_amav or of the main of the model selection
    mask,         \* the boolean array given to runs_true
    runs          \* the list runs_true returns

vars == <<pc, raw_df, slope_df, script, INCLUDE_NEG, summary, ser, df_one, metrics, run,
          mask, runs>>

NoTable == [Year |-> <<>>, T |-> <<>>]
NoSummary == [raised |-> FALSE, Year |-> <<>>, DataPoints |-> <<>>, MAV |-> <<>>,
              AMAV |-> <<>>, has_pos |-> FALSE, AMAV_POS |-> <<>>, valley |-> -1]
NoSer == [chosen_col |-> "none", Year |-> <<>>, values |-> <<>>]
NoSeries == [Year |-> <<>>, AMAV |-> <<>>]
NoMetrics == Metrics(0, "none", NaN, NaN, NaN, NaN, NaN, NaN, <<>>, FALSE)
NoRun == [driver |-> "none", input |-> <<>>, groups |-> <<>>, outcomes |-> <<>>,
          error |-> "none"]

\* the year axis: MaxYears year columns in ascending order, one calendar year
\* missing after the third column
Axis == [i \in 0 .. MaxYears - 1 |-> BaseYear + i + (IF i >= 3 THEN 1 ELSE 0)]

\* the cells of a study: missing, or a value in units of 1e-12
Cells == {NaN} \cup {Tiny(v, 1) : v \in ObsVals}

\* the number of observations of the study columns t
Observations(t) ==
    Cardinality({cp \in (DOMAIN t) \X (DOMAIN Axis) : ~isnan(t[cp[1]][cp[2]])})

\* the sparse study columns of one phenotype over the axis
StudyColumns ==
    {t \in [DOMAIN Trends -> [DOMAIN Axis -> Cells]] : Observations(t) <= MaxObs}

\* the scenario of the spec: one study observed in 2000, 2005 and 2010 on the
\* axis 2000..2010, its rows given in descending year order
Scenario ==
    [Year |-> [r \in 0 .. 10 |-> 2010 - r],
     T |-> << [r \in 0 .. 10 |->
                 IF r = 0 THEN Fin(3, 2)
                 ELSE IF r = 5 THEN Fin(2, 1)
                 ELSE IF r = 10 THEN Fin(1, 1)
                 ELSE NaN] >>]

RawTables ==
    {[Year |-> Axis, T |-> t] : t \in StudyColumns} \cup {Scenario}

Init ==
    /\ pc = "raw"
    /\ raw_df \in RawTables
    /\ slope_df = NoTable
    /\ script = "none"
    /\ INCLUDE_NEG = TRUE
    /\ summary = NoSummary
    /\ ser = NoSer
    /\ df_one = NoSeries
    /\ metrics = NoMetrics
    /\ run = NoRun
    /\ mask = <<>>
    /\ runs = <<>>

\* slope = build_perstudy_linearslope(raw)
BuildSlope ==
    /\ pc = "raw"
    /\ slope_df' = build_perstudy_linearslope(raw_df)
    /\ pc' = "slope"
    /\ UNCHANGED <<raw_df, script, INCLUDE_NEG, summary, ser, df_one, metrics, run, mask,
                   runs>>

\* summary = build_summary_mav_amav(slope), table rebuild script
BuildSummaryTable ==
    /\ pc = "slope"
    /\ \E inc \in BOOLEAN :
          /\ INCLUDE_NEG' = inc
          /\ summary' = build_summary_mav_amav(slope_df, inc)
    /\ script' = "table"
    /\ pc' = "summary"
    /\ UNCHANGED <<raw_df, slope_df, ser, df_one, metrics, run, mask, runs>>

\* summary = build_summary_mav_amav(slope), figure script
BuildSummaryFigures ==
    /\ pc = "slope"
    /\ summary' = build_summary_mav_amav_fig(slope_df)
    /\ script' = "figures"
    /\ pc' = "summary"
    /\ UNCHANGED <<raw_df, slope_df, INCLUDE_NEG, ser, df_one, metrics, run, mask, runs>>

\* build_disease_series, lines 290-291: a phenotype whose trends are all
\* missing is skipped
SkipPhenotype ==
    /\ pc = "raw"
    /\ all_na(raw_df)
    /\ pc' = "skipped"
    /\ UNCHANGED <<raw_df, slope_df, script, INCLUDE_NEG, summary, ser, df_one, metrics,
                   run, mask, runs>>

\* build_disease_series, lines 296-299: the series of a phenotype that was
\* not skipped and whose summary was returned
ExportSeries ==
    /\ pc = "summary"
    /\ script = "table"
    /\ ~all_na(raw_df)
    /\ ~summary.raised
    /\ ser' = set_index_year(summary, chosen_col(summary))
    /\ pc' = "exported"
    /\ UNCHANGED <<raw_df, slope_df, script, INCLUDE_NEG, summary, df_one, metrics, run,
                   mask, runs>>

Next ==
    \/ BuildSlope
    \/ BuildSummaryTable
    \/ BuildSummaryFigures
    \/ SkipPhenotype
    \/ ExportSeries

Spec == Init /\ [][Next]_vars

(***************************************************************************)
(* The model selection of one disease.                                     *)
(***************************************************************************)
\* the values of a series
SeriesVals == {Fin(-1, 1), Fin(0, 1), Fin(1, 1)}

\* the series of a disease: 0..MaxPoints points at successive years
AllSeries ==
    UNION {{[Year |-> [i \in 0 .. n - 1 |-> BaseYear + i], AMAV |-> v] :
                v \in [0 .. n - 1 -> SeriesVals]} : n \in 0 .. MaxPoints}

\* the AIC and BIC a fit may answer: finite, or -inf for a perfect fit
InfoVals == {NegInf, Fin(-4, 1), Fin(0, 1)}
FitAnswers ==
    {a \in [aic : InfoVals, bic : InfoVals] : isfinite(a.aic) <=> isfinite(a.bic)}
NoAnswer == [aic |-> NaN, bic |-> NaN]

\* the absolute errors of a held-out prediction
ErrLin == {0, 50}
ErrExp == {0, 49}

\* the answers of the fits a run on df asks for
Answers(df) ==
    LET n == Size(df.Year)
        positive == \A i \in DOMAIN df.AMAV : FLt(Zero, df.AMAV[i])
    IN  [lin : IF n >= MIN_POINTS_LINEAR THEN FitAnswers ELSE {NoAnswer},
         exp : IF n >= MIN_POINTS_EXP THEN FitAnswers ELSE {NoAnswer},
         err_lin : IF n >= MIN_POINTS_CV THEN [0 .. n - 1 -> ErrLin]
                   ELSE {[i \in 0 .. n - 1 |-> 0]},
         err_exp : IF n >= MIN_POINTS_CV /\ positive THEN [0 .. n - 1 -> ErrExp]
                   ELSE {[i \in 0 .. n - 1 |-> 0]}]

InitSelect ==
    /\ pc = "series"
    /\ df_one \in AllSeries
    /\ metrics = NoMetrics
    /\ raw_df = NoTable
    /\ slope_df = NoTable
    /\ script = "none"
    /\ INCLUDE_NEG = TRUE
    /\ summary = NoSummary
    /\ ser = NoSer
    /\ run = NoRun
    /\ mask = <<>>
    /\ runs = <<>>

\* metrics = choose_model_for_disease(df_one)
ChooseModel ==
    /\ pc = "series"
    /\ \E o \in Answers(df_one) : metrics' = choose_model_for_disease(df_one, o)
    /\ pc' = "chosen"
    /\ UNCHANGED <<raw_df, slope_df, script, INCLUDE_NEG, summary, ser, df_one, run,
                   mask, runs>>

NextSelect == ChooseModel

SpecSelect == InitSelect /\ [][NextSelect]_vars

(***************************************************************************)
(* The batch runs: build_amav of the table rebuild script, over the        *)
(* phenotypes of the input table, and main of LINEAR_vs_EXPONENTIAL.py,    *)
(* over the diseases of the AMAV sheet.  Reading the workbook is outside   *)
(* the model: a run starts from the table pandas read.                     *)
(***************************************************************************)
\* the phenotype names of an input, in the order groupby sorts them
Diseases == <<"A", "B">>

\* the cells of one row of the input table: one study observed at one
\* position of the axis or at two adjacent ones, or never
RowCells ==
    {c \in [DOMAIN Axis -> Cells] :
        LET O == {p \in DOMAIN c : ~isnan(c[p])}
        IN  Cardinality(O) <= Len(Diseases)
            /\ \A p \in O : \A q \in O : Abs(p - q) <= 1}

\* a row: its Phenotype cell (a phenotype, or a repeated header) and its cells
Rows == [Phenotype : {"A", "B", "Phenotype"}, cells : RowCells]

\* the input tables of build_amav: whether the header has 'Phenotype', the
\* labels of the other columns (years, or small numbers), and the rows
InputTables ==
    [has_phenotype : BOOLEAN,
     labels : {Axis, [i \in DOMAIN Axis |-> i + 1]},
     rows : UNION {[1 .. n -> Rows] : n \in 0 .. Len(Diseases)}]

\* read_single_table: the SystemExit it raises, or the table it returns
read_single_table(input) ==
    LET failed(msg) == [error |-> msg, df |-> <<>>, year_cols |-> <<>>]
        year_cols_orig ==
            where([i \in DOMAIN input.labels |->
                      1800 <= input.labels[i] /\ input.labels[i] <= 2100])
        year_map == [j \in DOMAIN year_cols_orig |-> input.labels[year_cols_orig[j]]]
        order == sort_values(year_map)
        year_cols == [r \in DOMAIN order |-> year_map[order[r]]]
        keep(row) == [Phenotype |-> row.Phenotype,
                      cells |-> [r \in DOMAIN order |->
                                    row.cells[year_cols_orig[order[r]]]]]
        kept == [i \in DOMAIN input.rows |-> keep(input.rows[i])]
    IN  IF input.rows = <<>> THEN failed("Input sheet appears to be empty.")
        ELSE IF ~input.has_phenotype
        THEN failed("Cannot find 'Phenotype' column in header.")
        ELSE IF Size(year_cols_orig) = 0
        THEN failed("No year-like columns found in the table.")
        ELSE [error |-> "none",
              df |-> SelectSeq(kept, LAMBDA row : row.Phenotype # "Phenotype"),
              year_cols |-> year_cols]

\* df.groupby("Phenotype"): the raw table Year | T1 | ... | Tk of each
\* phenotype, in the sorted order of the names
groupby_phenotype(df, years) ==
    LET names == SelectSeq(Diseases,
                     LAMBDA d : \E i \in DOMAIN df : df[i].Phenotype = d)
        trends(d) == SelectSeq(df, LAMBDA row : row.Phenotype = d)
    IN  [j \in DOMAIN names |->
            [disease |-> names[j],
             raw |-> [Year |-> years,
                      T |-> [c \in DOMAIN trends(names[j]) |->
                               trends(names[j])[c].cells]]]]

\* the body of the loop of build_disease_series for one phenotype: skipped,
\* the exception of build_summary_mav_amav, or the column it exports
disease_series(raw, include_neg) ==
    IF all_na(raw) THEN "skipped"
    ELSE LET slope == build_perstudy_linearslope(raw)
             result == build_summary_mav_amav(slope, include_neg)
         IN  IF result.raised THEN "IndexError" ELSE chosen_col(result)

\* the AMAV sheets main reads: whether it has a Year column, and one column
\* per disease over MIN_POINTS_EXP years
WideTables ==
    [has_year : BOOLEAN,
     Year : {[i \in 0 .. MIN_POINTS_EXP - 1 |-> BaseYear + i]},
     cols : [DOMAIN Diseases -> [0 .. MIN_POINTS_EXP - 1 -> SeriesVals \cup {NaN}]]]

\* wide.melt(...).dropna(subset=["AMAV"]) grouped by Disease: the series of
\* each disease that has a value, in the sorted order of the names
groupby_disease(wide) ==
    LET names == SelectSeq([j \in DOMAIN Diseases |-> j],
                           LAMBDA j : notna_any(wide.cols[j]))
        at(j) == where([i \in DOMAIN wide.cols[j] |-> ~isnan(wide.cols[j][i])])
    IN  [g \in DOMAIN names |->
            [disease |-> Diseases[names[g]],
             df_one |-> [Year |-> [i \in DOMAIN at(names[g]) |->
                                      wide.Year[at(names[g])[i]]],
                         AMAV |-> [i \in DOMAIN at(names[g]) |->
                                      wide.cols[names[g]][at(names[g])[i]]]]]]

InitBatch ==
    /\ pc = "start"
    /\ run \in {[driver |-> "build_amav", input |-> t, groups |-> <<>>,
                  outcomes |-> <<>>, error |-> "none"] : t \in InputTables}
              \cup {[driver |-> "main", input |-> w, groups |-> <<>>,
                      outcomes |-> <<>>, error |-> "none"] : w \in WideTables}
    /\ raw_df = NoTable
    /\ slope_df = NoTable
    /\ script = "none"
    /\ INCLUDE_NEG = TRUE
    /\ summary = NoSummary
    /\ ser = NoSer
    /\ df_one = NoSeries
    /\ metrics = NoMetrics
    /\ mask = <<>>
    /\ runs = <<>>

\* build_amav, line 368: df, year_order = read_single_table(inp)
ReadSingleTable ==
    /\ pc = "start"
    /\ run.driver = "build_amav"
    /\ LET r == read_single_table(run.input)
       IN  IF r.error # "none"
           THEN /\ pc' = "aborted"
                /\ run' = [run EXCEPT !.error = r.error]
           ELSE /\ pc' = "loop"
                /\ run' = [run EXCEPT !.groups = groupby_phenotype(r.df, r.year_cols)]
    /\ UNCHANGED <<raw_df, slope_df, script, INCLUDE_NEG, summary, ser, df_one, metrics,
                   mask, runs>>

\* one turn of the loop of build_disease_series; an exception of the body
\* leaves build_amav
ProcessPhenotype ==
    /\ pc = "loop"
    /\ run.driver = "build_amav"
    /\ Len(run.outcomes) < Len(run.groups)
    /\ LET grp == run.groups[Len(run.outcomes) + 1]
           outcome == disease_series(grp.raw, INCLUDE_NEG)
       IN  IF outcome = "IndexError"
           THEN /\ pc' = "aborted"
                /\ run' = [run EXCEPT !.error = outcome]
           ELSE /\ pc' = "loop"
                /\ run' = [run EXCEPT !.outcomes = Append(@, outcome)]
    /\ UNCHANGED <<raw_df, slope_df, script, INCLUDE_NEG, summary, ser, df_one, metrics,
                   mask, runs>>

\* build_amav after the loop: SystemExit when no series was built, the
\* workbook otherwise
FinishBuildAmav ==
    /\ pc = "loop"
    /\ run.driver = "build_amav"
    /\ Len(run.outcomes) = Len(run.groups)
    /\ IF \A i \in DOMAIN run.outcomes : run.outcomes[i] = "skipped"
       THEN /\ pc' = "aborted"
            /\ run' = [run EXCEPT !.error =
                           "No diseases could be parsed into AMAV/AMAV-POS series."]
       ELSE /\ pc' = "done"
            /\ run' = run
    /\ UNCHANGED <<raw_df, slope_df, script, INCLUDE_NEG, summary, ser, df_one, metrics,
                   mask, runs>>

\* main, lines 196-210: the sheet is read, checked and grouped by disease
ReadAmavSheet ==
    /\ pc = "start"
    /\ run.driver = "main"
    /\ IF ~run.input.has_year
       THEN /\ pc' = "aborted"
            /\ run' = [run EXCEPT !.error = "Column 'Year' not found in AMAV sheet."]
       ELSE /\ pc' = "loop"
            /\ run' = [run EXCEPT !.groups = groupby_disease(run.input)]
    /\ UNCHANGED <<raw_df, slope_df, script, INCLUDE_NEG, summary, ser, df_one, metrics,
                   mask, runs>>

\* one turn of the loop of main: metrics = choose_model_for_disease(df_one)
ProcessDisease ==
    /\ pc = "loop"
    /\ run.driver = "main"
    /\ Len(run.outcomes) < Len(run.groups)
    /\ LET grp == run.groups[Len(run.outcomes) + 1]
       IN  \E o \in Answers(grp.df_one) :
               LET result == choose_model_for_disease(grp.df_one, o)
               IN  IF result.error
                   THEN /\ pc' = "aborted"
                        /\ run' = [run EXCEPT !.error = "exception"]
                   ELSE /\ pc' = "loop"
                        /\ run' = [run EXCEPT !.outcomes = Append(@, result.model)]
    /\ UNCHANGED <<raw_df, slope_df, script, INCLUDE_NEG, summary, ser, df_one, metrics,
                   mask, runs>>

\* main after the loop: the results are written
FinishMain ==
    /\ pc = "loop"
    /\ run.driver = "main"
    /\ Len(run.outcomes) = Len(run.groups)
    /\ pc' = "done"
    /\ UNCHANGED <<raw_df, slope_df, script, INCLUDE_NEG, summary, ser, df_one, metrics,
                   run, mask, runs>>

NextBatch ==
    \/ ReadSingleTable
    \/ ProcessPhenotype
    \/ FinishBuildAmav
    \/ ReadAmavSheet
    \/ ProcessDisease
    \/ FinishMain

SpecBatch == InitBatch /\ [][NextBatch]_vars

(***************************************************************************)
(* runs_true on its own, for every boolean array of up to MaxMask          *)
(* positions.                                                              *)
(***************************************************************************)
Masks == UNION {[0 .. n - 1 -> BOOLEAN] : n \in 0 .. MaxMask}

InitRuns ==
    /\ pc = "mask"
    /\ mask \in Masks
    /\ runs = <<>>
    /\ raw_df = NoTable
    /\ slope_df = NoTable
    /\ script = "none"
    /\ INCLUDE_NEG = TRUE
    /\ summary = NoSummary
    /\ ser = NoSer
    /\ df_one = NoSeries
    /\ metrics = NoMetrics
    /\ run = NoRun

\* runs = runs_true(mask)
RunsTrue ==
    /\ pc = "mask"
    /\ runs' = runs_true(mask)
    /\ pc' = "runs"
    /\ UNCHANGED <<raw_df, slope_df, script, INCLUDE_NEG, summary, ser, df_one, metrics,
                   run, mask>>

NextRuns == RunsTrue

SpecRuns == InitRuns /\ [][NextRuns]_vars

(***************************************************************************)
(* Vocabulary of the properties, stated on the tables alone.               *)
(***************************************************************************)
Defined(a) == ~isnan(a)

\* the axis years at which study c of the raw table has an observation
ObsYears(c) == {raw_df.Year[r] : r \in {q \in DOMAIN raw_df.Year : Defined(raw_df.T[c][q])}}

\* the value study c reports for year y
ObsValue(c, y) == raw_df.T[c][CHOOSE r \in DOMAIN raw_df.Year : raw_df.Year[r] = y]

MinOf(S) == CHOOSE x \in S : \A z \in S : x <= z
MaxOf(S) == CHOOSE x \in S : \A z \in S : z <= x

\* y0 < y1 are successive observed years of study c
Successive(c, y0, y1) ==
    /\ y0 \in ObsYears(c) /\ y1 \in ObsYears(c) /\ y0 < y1
    /\ ~\E z \in ObsYears(c) : y0 < z /\ z < y1

\* the slope of study c at the axis year y, read from the slope table
SlopeAtYear(c, y) ==
    slope_df.T[c][CHOOSE p \in DOMAIN slope_df.Year : slope_df.Year[p] = y]

(***************************************************************************)
(* C1: when the slopes of a phenotype have been built, a study with at    *)
(* least two observations has a defined slope at an axis year y exactly    *)
(* when                                                                    *)
(* firstObservedYear < y <= lastObservedYear, every axis year y with       *)
(* y0 < y <= y1 for successive observations (y0,v0), (y1,v1) carries       *)
(* (v1 - v0) / (y1 - y0), and a study with fewer than two observations has *)
(* no defined slope; the scenario {(2000,1.0),(2005,2.0),(2010,1.5)} on    *)
(* the axis 2000..2010 gives +0.2 for 2001..2005, -0.1 for 2006..2010 and  *)
(* no slope for 2000.                                                      *)
(***************************************************************************)
C1_SlopeOnObservedSpan ==
    pc = "slope" =>
        /\ \A c \in DOMAIN raw_df.T : \A p \in DOMAIN slope_df.Year :
              LET y == slope_df.Year[p]
                  O == ObsYears(c)
              IN  /\ Cardinality(O) >= 2 =>
                        (Defined(slope_df.T[c][p]) <=> (MinOf(O) < y /\ y <= MaxOf(O)))
                  /\ Cardinality(O) < 2 => ~Defined(slope_df.T[c][p])
                  /\ \A y0 \in O : \A y1 \in O :
                        (Successive(c, y0, y1) /\ y0 < y /\ y <= y1) =>
                            slope_df.T[c][p] =
                                FDivInt(FSub(ObsValue(c, y1), ObsValue(c, y0)), y1 - y0)
        /\ raw_df = Scenario =>
              /\ {slope_df.Year[p] : p \in DOMAIN slope_df.Year} = 2000 .. 2010
              /\ \A y \in 2001 .. 2005 : SlopeAtYear(1, y) = Fin(2, 10)
              /\ \A y \in 2006 .. 2010 : SlopeAtYear(1, y) = Fin(-1, 10)
              /\ ~Defined(SlopeAtYear(1, 2000))

\* a study with three observations whose two intervals have a rising and a
\* falling slope, on the bounded axis
C1_Witness ==
    /\ pc = "slope"
    /\ raw_df # Scenario
    /\ \E c \in DOMAIN raw_df.T :
          /\ Cardinality(ObsYears(c)) = 3
          /\ \E p \in DOMAIN slope_df.Year : \E q \in DOMAIN slope_df.Year :
                /\ FLt(Zero, slope_df.T[c][p])
                /\ FLt(slope_df.T[c][q], Zero)

(***************************************************************************)
(* Vocabulary of the summary properties.                                   *)
(***************************************************************************)
\* a summary was returned by one of the two build_summary_mav_amav
Returned == pc = "summary" /\ ~summary.raised

\* the studies with a defined slope at axis position i
DefinedAt(i) == {c \in DOMAIN slope_df.T : Defined(slope_df.T[c][i])}

\* the sum of the slopes of the studies of C at position i, in no fixed order
RECURSIVE SlopeSum(_, _)
SlopeSum(C, i) ==
    IF C = {} THEN Zero
    ELSE LET c == CHOOSE x \in C : TRUE
         IN  FAdd(slope_df.T[c][i], SlopeSum(C \ {c}, i))

\* the slope table with its study columns in reverse order
ColumnsReversed ==
    [slope_df EXCEPT !.T = [c \in DOMAIN slope_df.T |->
                               slope_df.T[Len(slope_df.T) + 1 - c]]]

\* the MAV the script of the run computes for the reversed table
MavOfReversed ==
    IF script = "table" THEN nanmean(ColumnsReversed.T, Size(slope_df.Year))
    ELSE manual_mean(ColumnsReversed.T, Size(slope_df.Year))

\* the positions where the returned MAV is defined
MavDefined == {i \in DOMAIN summary.MAV : Defined(summary.MAV[i])}

\* the last maximal run of defined MAV is s..e
LastBlock(s, e) ==
    /\ s <= e
    /\ \A i \in s .. e : i \in MavDefined
    /\ (s - 1) \notin MavDefined
    /\ \A i \in MavDefined : i <= e

\* the positions where the returned AMAV is defined
AmavDefined == {i \in DOMAIN summary.AMAV : Defined(summary.AMAV[i])}

(***************************************************************************)
(* C2: in every returned summary, MAV is defined at an axis position       *)
(* exactly when some study has a defined slope there, which is exactly     *)
(* when DataPoints is positive, DataPoints counting those studies; a       *)
(* defined MAV is the sum of the defined slopes divided by DataPoints, and *)
(* the summary of the table with its study columns reversed has the same   *)
(* MAV.                                                                    *)
(***************************************************************************)
C2_MavIsMeanOfDefinedSlopes ==
    Returned =>
        /\ DOMAIN summary.MAV = DOMAIN slope_df.Year
        /\ \A i \in DOMAIN summary.MAV :
              /\ summary.DataPoints[i] = Cardinality(DefinedAt(i))
              /\ Defined(summary.MAV[i]) <=> DefinedAt(i) # {}
              /\ Defined(summary.MAV[i]) <=> summary.DataPoints[i] > 0
              /\ DefinedAt(i) # {} =>
                    summary.MAV[i] =
                        FDivInt(SlopeSum(DefinedAt(i), i), summary.DataPoints[i])
        /\ MavOfReversed = summary.MAV

\* a position where two studies with different slopes are averaged, and one
\* where no study has a slope
C2_Witness ==
    /\ Returned
    /\ \E i \in DOMAIN summary.MAV :
          /\ Cardinality(DefinedAt(i)) = 2
          /\ slope_df.T[1][i] # slope_df.T[2][i]
    /\ \E i \in DOMAIN summary.MAV : i > 0 /\ DefinedAt(i) = {}

(***************************************************************************)
(* C3: in every returned summary AMAV is defined only at positions i with  *)
(* last_s < i <= last_e + 1, (last_s, last_e) being the last maximal run   *)
(* of defined MAV: it is undefined at last_s, at every position of an      *)
(* older run, and everywhere when MAV is defined nowhere.                  *)
(***************************************************************************)
C3_AmavOnlyInLastBlock ==
    Returned =>
        /\ MavDefined = {} => AmavDefined = {}
        /\ \A s \in DOMAIN summary.MAV : \A e \in DOMAIN summary.MAV :
              LastBlock(s, e) =>
                  /\ \A i \in AmavDefined : s < i /\ i <= e + 1
                  /\ s \notin AmavDefined
                  /\ \A i \in MavDefined : i < s => i \notin AmavDefined

\* a summary with an older run of MAV before the last one and a defined AMAV
C3_Witness ==
    /\ Returned
    /\ script = "table"
    /\ AmavDefined # {}
    /\ \E s \in DOMAIN summary.MAV : \E e \in DOMAIN summary.MAV :
          /\ LastBlock(s, e)
          /\ \E i \in MavDefined : i < s

(***************************************************************************)
(* C4: in every returned summary, wherever AMAV is defined at two adjacent *)
(* positions i-1 and i, AMAV[i] - AMAV[i-1] = MAV[i-1], and so             *)
(* AMAV[i] >= AMAV[i-1] exactly when MAV[i-1] >= 0.                        *)
(***************************************************************************)
C4_AmavStepIsMav ==
    Returned =>
        \A i \in AmavDefined :
            (i - 1) \in AmavDefined =>
                /\ FSub(summary.AMAV[i], summary.AMAV[i - 1]) = summary.MAV[i - 1]
                /\ FLe(summary.AMAV[i - 1], summary.AMAV[i])
                      <=> FLe(Zero, summary.MAV[i - 1])

\* AMAV defined at two adjacent positions with a falling step between them
C4_Witness ==
    /\ Returned
    /\ script = "table"
    /\ \E i \in AmavDefined :
          /\ (i - 1) \in AmavDefined
          /\ FLt(summary.AMAV[i], summary.AMAV[i - 1])

(***************************************************************************)
(* C5: build_summary_mav_amav completes without raising for every slope    *)
(* table, also when the last run of defined MAV ends at the final axis     *)
(* position or has length 1; AMAV is written at last_e + 1 only when that  *)
(* position is on the axis, and a run of length 1 yields exactly one       *)
(* defined AMAV position.                                                  *)
(***************************************************************************)
C5_SummaryNeverRaises ==
    pc = "summary" =>
        /\ ~summary.raised
        /\ \A s \in DOMAIN summary.MAV :
              LastBlock(s, s) => Cardinality(AmavDefined) = 1

(***************************************************************************)
(* Vocabulary of the model-selection properties.                           *)
(***************************************************************************)
\* choose_model_for_disease has returned
Chosen == pc = "chosen"

\* the number of usable points of the series
Points == Cardinality(DOMAIN df_one.Year)

AllPositive == \A i \in DOMAIN df_one.AMAV : FLt(Zero, df_one.AMAV[i])

\* AIC_exponential - AIC_linear <= -4.0
AicFavoursExponential ==
    FLe(FSub(metrics.AIC_exponential, metrics.AIC_linear), Fin(-4, 1))

\* RMSE_exponential / RMSE_linear <= 0.98 for two defined RMSEs, the ratio
\* being infinite when RMSE_linear is 0: on the squares, 0.98^2 = 2401/2500
RmseFavoursExponential ==
    /\ metrics.RMSEcv_linear.n > 0
    /\ 2500 * metrics.RMSEcv_exponential.n * metrics.RMSEcv_linear.d
          <= 2401 * metrics.RMSEcv_linear.n * metrics.RMSEcv_exponential.d

\* the positions held out by the leave-one-out fits of a model, with repeats
HeldOut(model) ==
    [j \in {q \in DOMAIN metrics.fits :
               metrics.fits[q].model = model /\ metrics.fits[q].held # -1} |->
        metrics.fits[j].held]

\* every point is held out by exactly one leave-one-out fit of the model
OneHeldOutPerPoint(model) ==
    /\ \A i \in DOMAIN df_one.Year :
          Cardinality({j \in DOMAIN HeldOut(model) : HeldOut(model)[j] = i}) = 1
    /\ \A j \in DOMAIN HeldOut(model) : HeldOut(model)[j] \in DOMAIN df_one.Year

(***************************************************************************)
(* C6: for a series of fewer than 2 usable points the decision is          *)
(* INSUFFICIENT_DATA, the AIC, BIC and LOOCV RMSE of both models are       *)
(* undefined, and no model is fit.                                         *)
(***************************************************************************)
C6_InsufficientData ==
    (Chosen /\ Points < 2) =>
        /\ metrics.model = "INSUFFICIENT_DATA"
        /\ ~Defined(metrics.AIC_linear) /\ ~Defined(metrics.AIC_exponential)
        /\ ~Defined(metrics.BIC_linear) /\ ~Defined(metrics.BIC_exponential)
        /\ ~Defined(metrics.RMSEcv_linear) /\ ~Defined(metrics.RMSEcv_exponential)
        /\ metrics.fits = <<>>

\* a series of one point has been decided
C6_Witness == Chosen /\ Points = 1 /\ metrics.model = "INSUFFICIENT_DATA"

(***************************************************************************)
(* C7: for a series of exactly 2 usable points, whatever the sign of its   *)
(* values, only the linear model is fit and the decision is LINEAR_ONLY,   *)
(* with the linear AIC and BIC defined and the exponential AIC and BIC and *)
(* both LOOCV RMSEs undefined.                                             *)
(***************************************************************************)
C7_LinearOnly ==
    (Chosen /\ Points = 2) =>
        /\ metrics.model = "LINEAR_ONLY"
        /\ Defined(metrics.AIC_linear) /\ Defined(metrics.BIC_linear)
        /\ ~Defined(metrics.AIC_exponential) /\ ~Defined(metrics.BIC_exponential)
        /\ ~Defined(metrics.RMSEcv_linear) /\ ~Defined(metrics.RMSEcv_exponential)
        /\ metrics.fits = <<FitCall("linear", -1)>>

\* a series of two points, one of them negative, has been decided
C7_Witness ==
    /\ Chosen /\ Points = 2
    /\ \E i \in DOMAIN df_one.AMAV : FLt(df_one.AMAV[i], Zero)
    /\ metrics.model = "LINEAR_ONLY"

(***************************************************************************)
(* C8: for a series of at least 3 usable points with some value <= 0 the   *)
(* decision is LINEAR, the exponential AIC, BIC and LOOCV RMSE are         *)
(* undefined, the linear AIC and BIC are defined, and no error leaves the  *)
(* call.                                                                   *)
(***************************************************************************)
C8_NonPositiveFallsBackToLinear ==
    (Chosen /\ Points >= 3 /\ ~AllPositive) =>
        /\ metrics.model = "LINEAR"
        /\ ~Defined(metrics.AIC_exponential) /\ ~Defined(metrics.BIC_exponential)
        /\ ~Defined(metrics.RMSEcv_exponential)
        /\ Defined(metrics.AIC_linear) /\ Defined(metrics.BIC_linear)
        /\ ~metrics.error

\* a series of at least 5 points whose only non-positive value is a zero
C8_Witness ==
    /\ Chosen /\ Points >= 5
    /\ \E i \in DOMAIN df_one.AMAV : df_one.AMAV[i] = Zero
    /\ \A i \in DOMAIN df_one.AMAV : ~FLt(df_one.AMAV[i], Zero)
    /\ metrics.model = "LINEAR"
    /\ Defined(metrics.RMSEcv_linear)

(***************************************************************************)
(* C9: both LOOCV RMSEs are available exactly for the series of at least 5 *)
(* points with all values > 0; the decision is then EXPONENTIAL if and     *)
(* only if AIC_exponential - AIC_linear <= -4.0 and                        *)
(* RMSE_exponential / RMSE_linear <= 0.98, and LINEAR otherwise; a linear  *)
(* RMSE of exactly 0 makes the ratio infinite and the decision LINEAR.     *)
(***************************************************************************)
C9_DecisionWithCrossValidation ==
    Chosen =>
        /\ (Defined(metrics.RMSEcv_linear) /\ Defined(metrics.RMSEcv_exponential))
              <=> (Points >= 5 /\ AllPositive)
        /\ (Defined(metrics.RMSEcv_linear) /\ Defined(metrics.RMSEcv_exponential)) =>
              /\ metrics.model \in {"EXPONENTIAL", "LINEAR"}
              /\ metrics.model = "EXPONENTIAL"
                    <=> (AicFavoursExponential /\ RmseFavoursExponential)
              /\ metrics.RMSEcv_linear.n = 0 => metrics.model = "LINEAR"

\* EXPONENTIAL chosen with the AIC difference exactly -4 and the RMSE ratio
\* exactly 0.98
C9_Witness ==
    /\ Chosen /\ metrics.model = "EXPONENTIAL"
    /\ FSub(metrics.AIC_exponential, metrics.AIC_linear) = Fin(-4, 1)
    /\ Defined(metrics.RMSEcv_linear) /\ Defined(metrics.RMSEcv_exponential)
    /\ metrics.RMSEcv_linear.n > 0
    /\ 2500 * metrics.RMSEcv_exponential.n * metrics.RMSEcv_linear.d
          = 2401 * metrics.RMSEcv_linear.n * metrics.RMSEcv_exponential.d

(***************************************************************************)
(* C10: for an all-positive series of 3 or 4 usable points both LOOCV      *)
(* RMSEs are undefined and the decision is EXPONENTIAL if and only if      *)
(* AIC_exponential - AIC_linear <= -4.0, LINEAR otherwise; for an          *)
(* all-positive series of 5 or more points both LOOCV RMSEs are computed,  *)
(* each from exactly one held-out prediction per point.                    *)
(***************************************************************************)
C10_DecisionWithoutCrossValidation ==
    (Chosen /\ AllPositive) =>
        /\ Points \in {3, 4} =>
              /\ ~Defined(metrics.RMSEcv_linear) /\ ~Defined(metrics.RMSEcv_exponential)
              /\ metrics.model \in {"EXPONENTIAL", "LINEAR"}
              /\ metrics.model = "EXPONENTIAL" <=> AicFavoursExponential
              /\ DOMAIN HeldOut("linear") = {} /\ DOMAIN HeldOut("exponential") = {}
        /\ Points >= 5 =>
              /\ Defined(metrics.RMSEcv_linear) /\ Defined(metrics.RMSEcv_exponential)
              /\ OneHeldOutPerPoint("linear")
              /\ OneHeldOutPerPoint("exponential")

\* an all-positive series of 4 points decided EXPONENTIAL on the AIC alone
C10_Witness ==
    /\ Chosen /\ AllPositive /\ Points = 4
    /\ metrics.model = "EXPONENTIAL"
    /\ ~Defined(metrics.RMSEcv_linear)

(***************************************************************************)
(* Vocabulary of the export properties.                                    *)
(***************************************************************************)
\* build_disease_series has exported the series of the phenotype
Exported == pc = "exported"

\* AMAV-POS was produced for the phenotype: the summary has the column
Produced == summary.has_pos

\* the exported series is column col of the summary, indexed by its years
ExportedIs(col) == ser.Year = summary.Year /\ ser.values = col

(***************************************************************************)
(* C11 as stated: the exported series of a phenotype is its AMAV-POS       *)
(* series whenever AMAV-POS was produced (AMAV dipped negative in the last *)
(* block), and its AMAV series otherwise.                                  *)
(***************************************************************************)
C11_ExportsAmavPosWhenProduced ==
    Exported =>
        /\ Produced => ExportedIs(summary.AMAV_POS)
        /\ ~Produced => ExportedIs(summary.AMAV)

(***************************************************************************)
(* C11, amended: the exported series of a phenotype is its AMAV-POS series *)
(* whenever AMAV-POS was produced and is defined at some position, and its *)
(* AMAV series otherwise, in particular when AMAV-POS was produced but is  *)
(* undefined everywhere because the valley is the last position of the     *)
(* window.                                                                 *)
(***************************************************************************)
C11_ExportsAmavPosWhenDefined ==
    Exported =>
        LET defined == Produced /\ \E i \in DOMAIN summary.AMAV_POS :
                                      Defined(summary.AMAV_POS[i])
        IN  /\ defined => (ser.chosen_col = "AMAV-POS" /\ ExportedIs(summary.AMAV_POS))
            /\ ~defined => (ser.chosen_col = "AMAV" /\ ExportedIs(summary.AMAV))

\* a phenotype whose AMAV-POS has defined values was exported as AMAV-POS
C11_Witness ==
    /\ Exported
    /\ Produced
    /\ ser.chosen_col = "AMAV-POS"
    /\ \E i \in DOMAIN ser.values : Defined(ser.values[i])
    /\ ser.values # summary.AMAV

(***************************************************************************)
(* Vocabulary of the batch properties.                                     *)
(***************************************************************************)
\* the run has ended, with its output written or with an exception
BatchOver == pc \in {"done", "aborted"}

\* the input table is structurally invalid: empty, without the identifying
\* column, or without a year column
StructurallyInvalid ==
    IF run.driver = "build_amav"
    THEN \/ run.input.rows = <<>>
         \/ ~run.input.has_phenotype
         \/ ~\E i \in DOMAIN run.input.labels :
                 1800 <= run.input.labels[i] /\ run.input.labels[i] <= 2100
    ELSE ~run.input.has_year

\* the phenotypes (diseases) the input has rows (values) for
PhenotypesOfInput ==
    IF run.driver = "build_amav"
    THEN {run.input.rows[i].Phenotype : i \in DOMAIN run.input.rows} \ {"Phenotype"}
    ELSE {Diseases[j] : j \in {q \in DOMAIN Diseases :
                                  \E i \in DOMAIN run.input.cols[q] :
                                      Defined(run.input.cols[q][i])}}

(***************************************************************************)
(* C12: in every run a structurally invalid input table aborts the run     *)
(* before any phenotype is processed, and a run on a valid table ends only *)
(* after every phenotype of the table was processed: no phenotype's        *)
(* outcome aborts the batch.                                               *)
(***************************************************************************)
C12_OnlyInvalidInputAborts ==
    /\ (StructurallyInvalid /\ pc # "start") =>
           (pc = "aborted" /\ run.outcomes = <<>>)
    /\ (~StructurallyInvalid /\ BatchOver) =>
           Len(run.outcomes) = Cardinality(PhenotypesOfInput)

(***************************************************************************)
(* Vocabulary of the AMAV-POS properties.                                  *)
(***************************************************************************)
\* the positions where the returned AMAV-POS is defined
AmavPosDefined ==
    {i \in DOMAIN summary.AMAV_POS : Defined(summary.AMAV_POS[i])}

(***************************************************************************)
(* C13: with INCLUDE_NEG = False, whenever the table script produces       *)
(* AMAV-POS, AMAV-POS[i] >= AMAV-POS[i-1] for every pair of adjacent       *)
(* positions at which both are defined (they lie between valley+1 and the  *)
(* block end), and every defined AMAV-POS value is >= 0.                   *)
(***************************************************************************)
C13_PositiveLimbNonDecreasing ==
    (Returned /\ script = "table" /\ ~INCLUDE_NEG /\ Produced) =>
        \A i \in AmavPosDefined :
            /\ FLe(Zero, summary.AMAV_POS[i])
            /\ (i - 1) \in AmavPosDefined =>
                  FLe(summary.AMAV_POS[i - 1], summary.AMAV_POS[i])

\* AMAV-POS defined at two adjacent positions with a negative MAV between
\* them, which the clamp keeps out of the sum
C13_Witness ==
    /\ Returned /\ script = "table" /\ ~INCLUDE_NEG /\ Produced
    /\ \E i \in AmavPosDefined :
          /\ (i - 1) \in AmavPosDefined
          /\ FLt(summary.MAV[i - 1], Zero)
          /\ summary.AMAV_POS[i] = summary.AMAV_POS[i - 1]
          /\ FLt(Zero, summary.AMAV_POS[i])

\* the sum of the returned MAV over the positions lo..hi
RECURSIVE MavSum(_, _)
MavSum(lo, hi) ==
    IF hi < lo THEN Zero ELSE FAdd(MavSum(lo, hi - 1), summary.MAV[hi])

(***************************************************************************)
(* C14 as stated: at every position i where AMAV is defined, AMAV[i] is    *)
(* the sum of the MAV values at the positions block_start+1 .. i-1,        *)
(* block_start being the first position of the last contiguous MAV block.  *)
(***************************************************************************)
C14_AmavIsSumAfterBlockStart ==
    Returned =>
        \A s \in DOMAIN summary.MAV : \A e \in DOMAIN summary.MAV :
            LastBlock(s, e) =>
                \A i \in AmavDefined : summary.AMAV[i] = MavSum(s + 1, i - 1)

(***************************************************************************)
(* C14, amended: at every position i where AMAV is defined, AMAV[i] is the *)
(* sum of the MAV values at the positions block_start .. i-1, the MAV of   *)
(* the block's first position included.                                    *)
(***************************************************************************)
C14_AmavIsSumFromBlockStart ==
    Returned =>
        \A s \in DOMAIN summary.MAV : \A e \in DOMAIN summary.MAV :
            LastBlock(s, e) =>
                \A i \in AmavDefined : summary.AMAV[i] = MavSum(s, i - 1)

\* AMAV defined at three positions of a block whose first MAV is not zero
C14_Witness ==
    /\ Returned
    /\ \E s \in DOMAIN summary.MAV : \E e \in DOMAIN summary.MAV :
          /\ LastBlock(s, e)
          /\ summary.MAV[s] # Zero
          /\ {s + 1, s + 2, s + 3} \subseteq AmavDefined
          /\ summary.AMAV[s + 3] # summary.AMAV[s + 1]

(***************************************************************************)
(* C15: in the summary either script returns, AMAV-POS is produced if and  *)
(* only if some defined AMAV value of the window last_s+1..last_e+1 (the   *)
(* only positions where AMAV is defined) is below -epsilon, epsilon =      *)
(* 1e-12; small negative values inside the tolerance yield no AMAV-POS.    *)
(***************************************************************************)
C15_ProducedIffBelowTolerance ==
    Returned =>
        (Produced <=> \E i \in AmavDefined : FLt(summary.AMAV[i], FNeg(Tiny(1, 1))))

\* the smallest defined AMAV value of the window: the value at position m
WindowMinimum(m) ==
    /\ m \in AmavDefined
    /\ \A q \in AmavDefined : FLe(summary.AMAV[m], summary.AMAV[q])

(***************************************************************************)
(* C16: when AMAV-POS is produced, the valley is the smallest position of  *)
(* the window last_s+1..last_e+1 whose AMAV value is the minimum defined   *)
(* AMAV value of the window: the leftmost minimum on ties.                 *)
(***************************************************************************)
C16_ValleyIsLeftmostMinimum ==
    (Returned /\ Produced) =>
        /\ WindowMinimum(summary.valley)
        /\ \A m \in AmavDefined : WindowMinimum(m) => summary.valley <= m
        /\ \A s \in DOMAIN summary.MAV : \A e \in DOMAIN summary.MAV :
              LastBlock(s, e) => (s + 1 <= summary.valley /\ summary.valley <= e + 1)

\* the minimum of AMAV is taken at two positions of the window, and the
\* valley is the first of them
C16_Witness ==
    /\ Returned /\ Produced
    /\ \E m \in AmavDefined :
          /\ m > summary.valley
          /\ summary.AMAV[m] = summary.AMAV[summary.valley]
    /\ \E q \in AmavDefined : q < summary.valley

\* the negative contributions are clamped to zero: the table rebuild script
\* with INCLUDE_NEG = False (the figure script has no such switch)
Clamped == script = "table" /\ ~INCLUDE_NEG

\* the sum over j in lo..hi of MAV[j-1], or of max(MAV[j-1], 0)
RECURSIVE PosSum(_, _)
PosSum(lo, hi) ==
    IF hi < lo THEN Zero
    ELSE FAdd(PosSum(lo, hi - 1),
              IF Clamped /\ FLt(summary.MAV[hi - 1], Zero) THEN Zero
              ELSE summary.MAV[hi - 1])

(***************************************************************************)
(* C17: when AMAV-POS is produced it is undefined at every position before *)
(* valley+1, and at every position i from valley+1 to the end of the       *)
(* window, last_e+1 (so also up to the block end last_e), it is defined    *)
(* and equals the sum over j in valley+1..i of MAV[j-1], each term         *)
(* replaced by max(MAV[j-1], 0) when the include-negative flag is off: the *)
(* accumulator starts from 0 at valley+1.                                  *)
(***************************************************************************)
C17_PositiveLimbIntegratesFromValley ==
    (Returned /\ Produced) =>
        \A s \in DOMAIN summary.MAV : \A e \in DOMAIN summary.MAV :
            LastBlock(s, e) =>
                \A i \in DOMAIN summary.AMAV_POS :
                    /\ i < summary.valley + 1 => ~Defined(summary.AMAV_POS[i])
                    /\ (summary.valley + 1 <= i /\ i <= e + 1) =>
                          /\ Defined(summary.AMAV_POS[i])
                          /\ summary.AMAV_POS[i] = PosSum(summary.valley + 1, i)

\* a valley after the first position of the window: AMAV is defined before
\* the valley, where AMAV-POS is not, and AMAV-POS restarts after it with a
\* positive value where AMAV is still negative
C17_Witness ==
    /\ Returned /\ Produced
    /\ \E q \in AmavDefined : q < summary.valley
    /\ (summary.valley + 1) \in AmavPosDefined
    /\ FLt(Zero, summary.AMAV_POS[summary.valley + 1])
    /\ FLt(summary.AMAV[summary.valley + 1], Zero)

(***************************************************************************)
(* Vocabulary of the runs_true properties.                                 *)
(***************************************************************************)
\* the positions where the mask is True
TruePositions == {p \in DOMAIN mask : mask[p]}

\* the positions start..end of the k-th returned pair
RunPositions(k) == runs[k][1] .. runs[k][2]

(***************************************************************************)
(* C18: for every boolean array, the list runs_true returns is in strictly *)
(* increasing order; each pair has start <= end with every position of     *)
(* start..end True; the positions start-1 and end+1 are False or outside   *)
(* the array; the union of the runs is the set of True positions; the last *)
(* pair is the run containing the largest True position; and the list is   *)
(* empty exactly when no position is True.                                 *)
(***************************************************************************)
C18_RunsAreTheMaximalRuns ==
    pc = "runs" =>
        /\ \A k \in DOMAIN runs : \A m \in DOMAIN runs :
              k < m => runs[k][2] < runs[m][1]
        /\ \A k \in DOMAIN runs :
              /\ runs[k][1] <= runs[k][2]
              /\ RunPositions(k) \subseteq TruePositions
              /\ (runs[k][1] - 1) \notin TruePositions
              /\ (runs[k][2] + 1) \notin TruePositions
        /\ UNION {RunPositions(k) : k \in DOMAIN runs} = TruePositions
        /\ TruePositions # {} =>
              \E p \in RunPositions(Len(runs)) : \A q \in TruePositions : q <= p
        /\ runs = <<>> <=> TruePositions = {}

\* an array that starts and ends with True and has three runs, one of a
\* single position and one of several
C18_Witness ==
    /\ pc = "runs"
    /\ Len(runs) = 3
    /\ mask[0] /\ mask[Size(mask) - 1]
    /\ \E k \in DOMAIN runs : runs[k][1] = runs[k][2]
    /\ \E k \in DOMAIN runs : runs[k][1] < runs[k][2]

(***************************************************************************)
(* C19: with the negative contributions included (INCLUDE_NEG = True in    *)
(* the table script, always in the figure script), whenever AMAV-POS is    *)
(* produced, at every position i where AMAV-POS is defined                 *)
(* AMAV-POS[i] = AMAV[i] - AMAV[valley], and AMAV-POS[i] >= 0.             *)
(***************************************************************************)
C19_PositiveLimbIsAmavAboveValley ==
    (Returned /\ Produced /\ ~Clamped) =>
        \A i \in AmavPosDefined :
            /\ summary.AMAV_POS[i] =
                   FSub(summary.AMAV[i], summary.AMAV[summary.valley])
            /\ FLe(Zero, summary.AMAV_POS[i])

\* the table script with INCLUDE_NEG = True: AMAV-POS rises and then falls
\* with a negative MAV, above a valley where AMAV is negative
C19_Witness ==
    /\ Returned /\ Produced /\ script = "table" /\ INCLUDE_NEG
    /\ FLt(summary.AMAV[summary.valley], Zero)
    /\ \E i \in AmavPosDefined :
          /\ (i - 1) \in AmavPosDefined
          /\ FLt(summary.AMAV_POS[i], summary.AMAV_POS[i - 1])
          /\ FLt(Zero, summary.AMAV_POS[i])

=============================================================================
